---- MODULE Spec2Model ----
(***************************************************************************)
(* The scheduler of scheduler.h: a shared work-index counter claimed by a  *)
(* pool of std::threads, in the fixed mode (run / get_work / code_block)   *)
(* and in the waiting mode (run_wait / get_work_wait / code_block_wait),   *)
(* with the callers' add_work and done_adding_work.                        *)
(*                                                                         *)
(* Atomicity.  A worker's steps are cut where another thread can observe   *)
(* or change what the worker reads:                                        *)
(*   - acquiring _workMutex and the first read under it,                   *)
(*   - the test against _maxWork with the increment and the return,        *)
(*   - the call of condition_variable::wait after a false predicate,       *)
(*   - the call of do_work.                                                *)
(* add_work and done_adding_work take no mutex, so ++_maxWork is a load    *)
(* and a store, and each notify is a step of its own.                      *)
(*                                                                         *)
(* The callers.  run / run_wait is called only when no run is in progress  *)
(* (after construction or after join); add_work and done_adding_work are   *)
(* called during a run, from up to two threads; add_work is not called     *)
(* once done_adding_work has been; done_adding_work is called at most once *)
(* and with no add_work in flight; join returns when every worker thread   *)
(* has returned and the producers are back from their calls.               *)
(*                                                                         *)
(* claimed, handled, prevHandled, addCalls, racedAdds, parkedStart and     *)
(* closedAtStart record what happened; no step of the scheduler reads      *)
(* them.                                                                   *)
(***************************************************************************)
EXTENDS Integers, Naturals, Sequences, FiniteSets, TLC

\* ---------------------------------------------------------------- bounds
MaxThreads == 2
\* every index of the model: the constructor's maxWork plus the add_work calls
MaxWork == 3
MaxRuns == 2

\* -------------------------------------------------------------- constants
\* get_work / get_work_wait return -1 when no index is left
Sentinel == -1
\* _workMutex held by no thread
NoThread == -1

Workers == 0..(MaxThreads - 1)
\* the threads of the caller that call add_work / done_adding_work
Producers == {"p1", "p2"}
\* every index a run can give out
Indices == 0..(MaxWork - 1)
\* std::thread::hardware_concurrency() may return 0 when it cannot tell
HardwareConcurrency == 0..MaxThreads
\* the values a read of the never-assigned int _threadCount can give
UninitInt == (-1)..MaxThreads

VARIABLES
    maxWorkArg,      \* constructor argument maxWork
    threadCountArg,  \* constructor argument threadCount
    _maxWork,        \* int _maxWork
    _nextWork,       \* int _nextWork
    _done,           \* bool _done
    _threadCount,    \* int _threadCount
    _workMutex,      \* std::mutex _workMutex: its owner, or NoThread
    _threads,        \* std::vector<std::thread> _threads, as the set of thread ids
    pc,              \* each worker thread's position
    work,            \* each worker thread's local retVal / work
    ppc,             \* each producer thread's position inside add_work / done_adding_work
    reg,             \* each producer thread's loaded value of _maxWork
    phase,           \* "idle" (constructed), "running" (after run), "joined" (after join)
    mode,            \* "fixed" (run) or "wait" (run_wait) of the current run
    runNo,           \* number of runs started
    closedAtStart,   \* whether _done was already true when the current run started
    addCalls,        \* number of add_work calls made
    racedAdds,       \* whether two add_work calls ever overlapped
    parkedStart,     \* whether an add_work call of the run began with every worker blocked in wait
    claimed,         \* the current run's non-sentinel claims, in order of lock acquisition
    handled,         \* the current run's do_work calls per index
    prevHandled      \* the previous run's do_work calls per index

vars == << maxWorkArg, threadCountArg, _maxWork, _nextWork, _done, _threadCount,
           _workMutex, _threads, pc, work, ppc, reg, phase, mode, runNo, closedAtStart, addCalls,
           racedAdds, parkedStart, claimed, handled, prevHandled >>

ctorVars == << maxWorkArg, threadCountArg, _threadCount >>
workerVars == << pc, work >>
producerVars == << ppc, reg, addCalls, racedAdds, parkedStart >>
runVars == << phase, mode, runNo, closedAtStart, _threads >>
histVars == << claimed, handled, prevHandled >>

NoneHandled == [i \in Indices |-> 0]

\* ------------------------------------------------------------ construction
\* scheduler(worker *w, int maxWork, int threadCount=0): _threadCount is assigned
\* only when threadCount < 1; otherwise it is read uninitialized by run_all_threads.
ConstructedThreadCount(tc, hw, garbage) == IF tc < 1 THEN hw ELSE garbage

Construct(mw, tc, hw, garbage) ==
    /\ maxWorkArg = mw
    /\ threadCountArg = tc
    /\ _maxWork = mw
    /\ _nextWork = 0
    /\ _threadCount = ConstructedThreadCount(tc, hw, garbage)
    /\ _done = FALSE
    /\ _workMutex = NoThread
    /\ _threads = {}

Init ==
    /\ \E mw \in 0..MaxWork, tc \in 0..MaxThreads, hw \in HardwareConcurrency,
          garbage \in UninitInt : Construct(mw, tc, hw, garbage)
    /\ pc = [w \in Workers |-> "none"]
    /\ work = [w \in Workers |-> 0]
    /\ ppc = [p \in Producers |-> "idle"]
    /\ reg = [p \in Producers |-> 0]
    /\ phase = "idle"
    /\ mode = "fixed"
    /\ runNo = 0
    /\ closedAtStart = FALSE
    /\ addCalls = 0
    /\ racedAdds = FALSE
    /\ parkedStart = FALSE
    /\ claimed = << >>
    /\ handled = NoneHandled
    /\ prevHandled = NoneHandled

\* ------------------------------------------------------------- run / join
\* the thread ids run_all_threads creates: for (i = 0; i < _threadCount; ++i)
Spawned == {i \in Workers : i < _threadCount}

\* run_all_threads without the reset of _nextWork
run_all_threads_no_reset(m) ==
    /\ phase \in {"idle", "joined"}
    /\ runNo < MaxRuns
    /\ _threads' = Spawned
    /\ _nextWork' = _nextWork
    /\ pc' = [w \in Workers |-> IF w \in Spawned THEN "lock" ELSE "none"]
    /\ work' = [w \in Workers |-> 0]
    /\ phase' = "running"
    /\ mode' = m
    /\ runNo' = runNo + 1
    /\ closedAtStart' = _done
    /\ claimed' = << >>
    /\ prevHandled' = handled
    /\ handled' = NoneHandled
    /\ parkedStart' = FALSE
    /\ UNCHANGED << ctorVars, _maxWork, _done, _workMutex, ppc, reg, addCalls, racedAdds >>

\* run_all_threads that also resets _done
run_all_threads_resets_done(m) ==
    /\ phase \in {"idle", "joined"}
    /\ runNo < MaxRuns
    /\ _threads' = Spawned
    /\ _nextWork' = 0
    /\ _done' = FALSE
    /\ pc' = [w \in Workers |-> IF w \in Spawned THEN "lock" ELSE "none"]
    /\ work' = [w \in Workers |-> 0]
    /\ phase' = "running"
    /\ mode' = m
    /\ runNo' = runNo + 1
    /\ closedAtStart' = _done
    /\ claimed' = << >>
    /\ prevHandled' = handled
    /\ handled' = NoneHandled
    /\ parkedStart' = FALSE
    /\ UNCHANGED << ctorVars, _maxWork, _workMutex, ppc, reg, addCalls, racedAdds >>

\* run_all_threads(x): clears _threads, resets _nextWork, starts the threads.
\* Called only when no run is in progress.
run_all_threads(m) ==
    /\ phase \in {"idle", "joined"}
    /\ runNo < MaxRuns
    /\ _threads' = Spawned
    /\ _nextWork' = 0
    /\ pc' = [w \in Workers |-> IF w \in Spawned THEN "lock" ELSE "none"]
    /\ work' = [w \in Workers |-> 0]
    /\ phase' = "running"
    /\ mode' = m
    /\ runNo' = runNo + 1
    /\ closedAtStart' = _done
    /\ claimed' = << >>
    /\ prevHandled' = handled
    /\ handled' = NoneHandled
    /\ parkedStart' = FALSE
    /\ UNCHANGED << ctorVars, _maxWork, _done, _workMutex, ppc, reg, addCalls, racedAdds >>

run == run_all_threads("fixed")

run_wait == run_all_threads("wait")

ProducersIdle == \A p \in Producers : ppc[p] = "idle"

\* join() that clears _threads without waiting for the threads
join_without_waiting ==
    /\ phase = "running"
    /\ ProducersIdle
    /\ _threads' = {}
    /\ pc' = [w \in Workers |-> "none"]
    /\ phase' = "joined"
    /\ UNCHANGED << ctorVars, _maxWork, _nextWork, _done, _workMutex, work, producerVars,
                    mode, runNo, closedAtStart, histVars >>

\* join(): th.join() for every thread, then _threads.clear().  The caller joins
\* after its producers have returned.
join ==
    /\ phase = "running"
    /\ ProducersIdle
    /\ \A w \in _threads : pc[w] = "done"
    /\ _threads' = {}
    /\ pc' = [w \in Workers |-> "none"]
    /\ phase' = "joined"
    /\ UNCHANGED << ctorVars, _maxWork, _nextWork, _done, _workMutex, work, producerVars,
                    mode, runNo, closedAtStart, histVars >>

\* ------------------------------------------------------------- the workers
\* a lock that never blocks
MutexFree_never_blocks == TRUE

\* lock_guard / unique_lock constructor: blocks until the mutex is free
MutexFree == _workMutex = NoThread

\* the test with <= in place of <
HasWork_off_by_one(retVal) == retVal <= _maxWork

\* if (retVal < _maxWork)
HasWork(retVal) == retVal < _maxWork

\* returning the incremented _nextWork in place of the value read
ClaimResult_after_increment(retVal) == IF HasWork(retVal) THEN retVal + 1 ELSE Sentinel

\* the value get_work / get_work_wait returns for the index read
ClaimResult(retVal) == IF HasWork(retVal) THEN retVal ELSE Sentinel

\* the first half of get_work with the wait of get_work_wait in it
get_work_lock_blocking(w) ==
    /\ mode = "fixed"
    /\ pc[w] = "lock"
    /\ MutexFree
    /\ _workMutex' = w
    /\ IF _done \/ (_nextWork < _maxWork)
         THEN /\ work' = [work EXCEPT ![w] = _nextWork]
              /\ pc' = [pc EXCEPT ![w] = "crit"]
         ELSE /\ work' = work
              /\ pc' = [pc EXCEPT ![w] = "block"]
    /\ UNCHANGED << ctorVars, _maxWork, _nextWork, _done, producerVars, runVars, histVars >>

\* get_work(), first half: lock_guard lk(_workMutex); int retVal = _nextWork;
get_work_lock(w) ==
    /\ mode = "fixed"
    /\ pc[w] = "lock"
    /\ MutexFree
    /\ _workMutex' = w
    /\ work' = [work EXCEPT ![w] = _nextWork]
    /\ pc' = [pc EXCEPT ![w] = "crit"]
    /\ UNCHANGED << ctorVars, _maxWork, _nextWork, _done, producerVars, runVars, histVars >>

\* the second half with the lock still held after the return
claim_keeps_lock(w) ==
    /\ pc[w] = "crit"
    /\ _nextWork' = IF HasWork(work[w]) THEN _nextWork + 1 ELSE _nextWork
    /\ work' = [work EXCEPT ![w] = ClaimResult(work[w])]
    /\ claimed' = IF HasWork(work[w]) THEN Append(claimed, ClaimResult(work[w])) ELSE claimed
    /\ _workMutex' = _workMutex
    /\ pc' = [pc EXCEPT ![w] = IF ClaimResult(work[w]) = Sentinel THEN "done" ELSE "work"]
    /\ UNCHANGED << ctorVars, _maxWork, _done, producerVars, runVars, handled, prevHandled >>

\* get_work() / get_work_wait(), second half: the test, ++_nextWork, the return
\* (which unlocks), and code_block's test of the result.
claim(w) ==
    /\ pc[w] = "crit"
    /\ _nextWork' = IF HasWork(work[w]) THEN _nextWork + 1 ELSE _nextWork
    /\ work' = [work EXCEPT ![w] = ClaimResult(work[w])]
    /\ claimed' = IF HasWork(work[w]) THEN Append(claimed, ClaimResult(work[w])) ELSE claimed
    /\ _workMutex' = NoThread
    /\ pc' = [pc EXCEPT ![w] = IF ClaimResult(work[w]) = Sentinel THEN "done" ELSE "work"]
    /\ UNCHANGED << ctorVars, _maxWork, _done, producerVars, runVars, handled, prevHandled >>

\* the predicate of _cv.wait
WaitPredicate == _done \/ (_nextWork < _maxWork)

\* get_work_wait(), first half: unique_lock lk(_workMutex); the predicate of
\* _cv.wait is evaluated with the mutex held; when it holds, int retVal = _nextWork.
get_work_wait_lock(w) ==
    /\ mode = "wait"
    /\ pc[w] = "lock"
    /\ MutexFree
    /\ _workMutex' = w
    /\ IF WaitPredicate
         THEN /\ work' = [work EXCEPT ![w] = _nextWork]
              /\ pc' = [pc EXCEPT ![w] = "crit"]
         ELSE /\ work' = work
              /\ pc' = [pc EXCEPT ![w] = "block"]
    /\ UNCHANGED << ctorVars, _maxWork, _nextWork, _done, producerVars, runVars, histVars >>

\* _cv.wait(lk): after a false predicate, unlock and block, atomically
cv_wait(w) ==
    /\ pc[w] = "block"
    /\ _workMutex' = NoThread
    /\ pc' = [pc EXCEPT ![w] = "waiting"]
    /\ UNCHANGED << ctorVars, _maxWork, _nextWork, _done, work, producerVars, runVars,
                    histVars >>

\* a wait may return without a notify; the thread then locks and tests again
spurious_wakeup(w) ==
    /\ pc[w] = "waiting"
    /\ pc' = [pc EXCEPT ![w] = "lock"]
    /\ UNCHANGED << ctorVars, _maxWork, _nextWork, _done, _workMutex, work, producerVars,
                    runVars, histVars >>

\* w->do_work(work), then back to the top of the loop, where the local work is dead
do_work(w) ==
    /\ pc[w] = "work"
    /\ handled' = [handled EXCEPT ![work[w]] = @ + 1]
    /\ pc' = [pc EXCEPT ![w] = "lock"]
    /\ work' = [work EXCEPT ![w] = 0]
    /\ UNCHANGED << ctorVars, _maxWork, _nextWork, _done, _workMutex, producerVars,
                    runVars, claimed, prevHandled >>

\* ----------------------------------------------------------- the producers
Waiting == {w \in Workers : pc[w] = "waiting"}

\* every worker thread is blocked in _cv.wait and no index can be claimed
AllParked ==
    /\ _threads # {}
    /\ \A w \in _threads : pc[w] = "waiting"
    /\ _nextWork >= _maxWork

\* add_work(): ++_maxWork, the load.  Callers add only before closing.
add_work_load(p) ==
    /\ phase = "running"
    /\ ppc[p] = "idle"
    /\ ~_done
    /\ maxWorkArg + addCalls < MaxWork
    /\ reg' = [reg EXCEPT ![p] = _maxWork]
    /\ ppc' = [ppc EXCEPT ![p] = "store"]
    /\ addCalls' = addCalls + 1
    /\ racedAdds' = (racedAdds \/ ~ProducersIdle)
    /\ parkedStart' = (parkedStart \/ (AllParked /\ ProducersIdle))
    /\ UNCHANGED << ctorVars, _maxWork, _nextWork, _done, _workMutex, workerVars, runVars,
                    histVars >>

\* add_work(): ++_maxWork, the store; the loaded value is dead afterwards
add_work_store(p) ==
    /\ ppc[p] = "store"
    /\ _maxWork' = reg[p] + 1
    /\ reg' = [reg EXCEPT ![p] = 0]
    /\ ppc' = [ppc EXCEPT ![p] = "notify"]
    /\ UNCHANGED << ctorVars, _nextWork, _done, _workMutex, workerVars, addCalls,
                    racedAdds, parkedStart, runVars, histVars >>

\* add_work(): _cv.notify_one() wakes one of the waiting threads, if there is one
add_work_notify(p) ==
    /\ ppc[p] = "notify"
    /\ \/ /\ Waiting = {}
          /\ pc' = pc
       \/ \E w \in Waiting : pc' = [pc EXCEPT ![w] = "lock"]
    /\ ppc' = [ppc EXCEPT ![p] = "idle"]
    /\ UNCHANGED << ctorVars, _maxWork, _nextWork, _done, _workMutex, work, reg, addCalls,
                    racedAdds, parkedStart, runVars, histVars >>

\* done_adding_work(): _done = true.  Called once, after the add_work calls.
done_adding_work_set(p) ==
    /\ phase = "running"
    /\ ProducersIdle
    /\ ~_done
    /\ _done' = TRUE
    /\ ppc' = [ppc EXCEPT ![p] = "notify_all"]
    /\ UNCHANGED << ctorVars, _maxWork, _nextWork, _workMutex, workerVars, reg, addCalls,
                    racedAdds, parkedStart, runVars, histVars >>

\* done_adding_work(): _cv.notify_all() wakes every waiting thread
done_adding_work_notify(p) ==
    /\ ppc[p] = "notify_all"
    /\ pc' = [w \in Workers |-> IF pc[w] = "waiting" THEN "lock" ELSE pc[w]]
    /\ ppc' = [ppc EXCEPT ![p] = "idle"]
    /\ UNCHANGED << ctorVars, _maxWork, _nextWork, _done, _workMutex, work, reg, addCalls,
                    racedAdds, parkedStart, runVars, histVars >>

\* ------------------------------------------------------------ specification
WorkerStep(w) ==
    \/ get_work_lock(w)
    \/ get_work_wait_lock(w)
    \/ claim(w)
    \/ cv_wait(w)
    \/ do_work(w)

Next ==
    \/ run
    \/ run_wait
    \/ join
    \/ \E w \in Workers : get_work_lock(w)
    \/ \E w \in Workers : get_work_wait_lock(w)
    \/ \E w \in Workers : claim(w)
    \/ \E w \in Workers : cv_wait(w)
    \/ \E w \in Workers : spurious_wakeup(w)
    \/ \E w \in Workers : do_work(w)
    \/ \E p \in Producers : add_work_load(p)
    \/ \E p \in Producers : add_work_store(p)
    \/ \E p \in Producers : add_work_notify(p)
    \/ \E p \in Producers : done_adding_work_set(p)
    \/ \E p \in Producers : done_adding_work_notify(p)

Spec == Init /\ [][Next]_vars

\* The scheduler built with any int as maxWork: the constructor tests nothing.
InitAnyWork ==
    /\ \E mw \in (-1)..MaxWork, tc \in 0..MaxThreads, hw \in HardwareConcurrency,
          garbage \in UninitInt : Construct(mw, tc, hw, garbage)
    /\ pc = [w \in Workers |-> "none"]
    /\ work = [w \in Workers |-> 0]
    /\ ppc = [p \in Producers |-> "idle"]
    /\ reg = [p \in Producers |-> 0]
    /\ phase = "idle"
    /\ mode = "fixed"
    /\ runNo = 0
    /\ closedAtStart = FALSE
    /\ addCalls = 0
    /\ racedAdds = FALSE
    /\ parkedStart = FALSE
    /\ claimed = << >>
    /\ handled = NoneHandled
    /\ prevHandled = NoneHandled

SpecAnyWork == InitAnyWork /\ [][Next]_vars

\* The operating system runs every thread that can run and a thread that asks
\* for the mutex again and again gets it; a wait is not owed a spurious return,
\* and a caller inside add_work or done_adding_work returns from it.
FairSpec ==
    /\ Spec
    /\ \A w \in Workers : SF_vars(WorkerStep(w))
    /\ \A p \in Producers : WF_vars(add_work_store(p) \/ add_work_notify(p)
                                     \/ done_adding_work_notify(p))
    /\ WF_vars(join)

\* The same with no more than weak fairness: a thread that can run without
\* interruption from some point on does run.
WeakFairSpec ==
    /\ Spec
    /\ \A w \in Workers : WF_vars(WorkerStep(w))
    /\ \A p \in Producers : WF_vars(add_work_store(p) \/ add_work_notify(p)
                                     \/ done_adding_work_notify(p))
    /\ WF_vars(join)

TypeOK ==
    /\ _maxWork \in (-1)..MaxWork
    /\ _nextWork \in 0..MaxWork
    /\ _workMutex \in Workers \cup {NoThread}
    /\ pc \in [Workers -> {"none", "lock", "crit", "block", "waiting", "work", "done"}]

\* ------------------------------------------------------------------ claims
\* each index below n handled once, no other index handled
ExactlyOnce(n) == [i \in Indices |-> IF i < n THEN 1 ELSE 0]

\* C1: a run started with run() on a scheduler with at least one thread and no
\* add_work call has, when join() has returned, passed each index of
\* 0 .. maxWork-1 to do_work exactly once and no other index.
C1_FixedExactlyOnce ==
    (phase = "joined" /\ mode = "fixed" /\ addCalls = 0 /\ _threadCount >= 1)
        => handled = ExactlyOnce(maxWorkArg)

C1_Witness ==
    /\ phase = "joined" /\ mode = "fixed" /\ addCalls = 0 /\ runNo = 1
    /\ _threadCount = MaxThreads /\ maxWorkArg = MaxWork
    /\ handled = ExactlyOnce(MaxWork)

\* C2: in both modes, with add_work calls interleaved, no two claims of a run
\* return the same index, and no two workers hold the same index for do_work.
C2_NoDoubleClaim ==
    /\ \A i, j \in DOMAIN claimed : i # j => claimed[i] # claimed[j]
    /\ \A v, w \in Workers :
          (v # w /\ pc[v] = "work" /\ pc[w] = "work") => work[v] # work[w]

C2_Witness ==
    /\ mode = "wait" /\ maxWorkArg = 0 /\ addCalls >= 2 /\ Len(claimed) >= 2
    /\ _threads = Workers
    /\ \A w \in Workers : pc[w] = "work"

\* C3: a run_wait() run on a scheduler built with work 0, in which the producer
\* has made its add_work calls one after the other and has returned from
\* done_adding_work, leads to join() having returned with exactly the added
\* indices handled.
C3_StreamingTermination ==
    (/\ phase = "running" /\ mode = "wait" /\ runNo = 1 /\ maxWorkArg = 0
     /\ _threadCount >= 1 /\ ~racedAdds /\ _done /\ ProducersIdle)
        ~> (phase = "joined" /\ handled = ExactlyOnce(addCalls))

\* C4: in a run_wait() run, after add_work calls that began with every worker
\* parked in the wait and that have all returned, no index is left unclaimed
\* with every worker blocked in the wait.
C4_NoLostWakeup ==
    (/\ phase = "running" /\ mode = "wait" /\ parkedStart /\ ~racedAdds
     /\ ~_done /\ ProducersIdle)
        => ~(_nextWork < _maxWork /\ \A w \in _threads : pc[w] = "waiting")

\* C5: the claims of a run, in the order of the lock acquisitions, return
\* 0, 1, 2, ...: each the one before plus one, the first 0.
C5_ClaimMonotone == \A i \in DOMAIN claimed : claimed[i] = i - 1

C5_Witness ==
    /\ mode = "wait" /\ addCalls >= 1 /\ Len(claimed) = MaxWork
    /\ \E w \in Workers : pc[w] = "work" /\ work[w] = MaxWork - 1

\* C6: when a second (or later) run() of a scheduler that never had add_work
\* called has been joined, that run and the run before it have each handled
\* every index of 0 .. maxWork-1 exactly once.
C6_ReuseExactlyOnce ==
    (phase = "joined" /\ runNo >= 2 /\ mode = "fixed" /\ addCalls = 0 /\ _threadCount >= 1)
        => (handled = ExactlyOnce(maxWorkArg) /\ prevHandled = ExactlyOnce(maxWorkArg))

C6_Witness ==
    /\ phase = "joined" /\ runNo = 2 /\ mode = "fixed" /\ addCalls = 0
    /\ _threadCount = MaxThreads /\ maxWorkArg = MaxWork
    /\ handled = ExactlyOnce(MaxWork) /\ prevHandled = ExactlyOnce(MaxWork)

\* C7: when every add_work call made has returned, _maxWork is its initial
\* value plus the number of calls.
C7_AddWorkAtomic == ProducersIdle => _maxWork = maxWorkArg + addCalls

\* C8: a scheduler built with work 0, started with run(), given add_work calls
\* one after the other and then joined has handled every added index.
C8_ExtensionHandled ==
    (/\ phase = "joined" /\ runNo = 1 /\ mode = "fixed" /\ maxWorkArg = 0
     /\ _threadCount >= 1 /\ ~racedAdds)
        => handled = ExactlyOnce(addCalls)

\* C9: a scheduler built with threadCount < 1 has a positive thread count.
C9_ZeroThreadCountPositive == threadCountArg < 1 => _threadCount >= 1

\* C10: a run of a scheduler built with threadCount = T >= 1 has exactly T
\* worker threads.
C10_ExplicitThreadCount ==
    (phase = "running" /\ threadCountArg >= 1) => Cardinality(_threads) = threadCountArg

\* C11: every step in which join() returns starts with each worker thread of
\* the run returned from its code block, and ends with _threads empty.
C11_JoinAfterWorkers ==
    [][(phase = "running" /\ phase' = "joined")
          => ((\A w \in _threads : pc[w] = "done") /\ _threads' = {})]_vars

C11_Witness ==
    /\ phase = "joined" /\ mode = "wait" /\ _threads = {}
    /\ _threadCount = MaxThreads /\ Len(claimed) = MaxWork

\* C12: in a run_wait() run a claim returns the sentinel only with _done true
\* and no index left (_nextWork >= _maxWork).
C12_SentinelOnlyWhenClosed ==
    [][\A w \in Workers :
          (mode = "wait" /\ pc[w] = "crit" /\ pc'[w] = "done")
              => (_done /\ _nextWork >= _maxWork)]_vars

\* C13: a scheduler built with a negative work count is refused at
\* construction: it never gets to run.
C13_NegativeWorkRejected == maxWorkArg < 0 => phase = "idle"

\* C14: with a work count >= 0, in every state 0 <= _nextWork <= _maxWork.
C14_NextWithinRange == 0 <= _nextWork /\ _nextWork <= _maxWork

\* C15: no step lowers _maxWork.
C15_MaxWorkNeverDecreases == [][_maxWork' >= _maxWork]_vars

\* C16: during a run, every step that writes _nextWork, _maxWork or _done is
\* taken by a thread that holds _workMutex.  Only worker threads ever lock
\* _workMutex, so the writer has to be a worker that owns it.
C16_WritesUnderMutex ==
    [][(/\ phase = "running" /\ phase' = "running" /\ _threads # {}
        /\ << _nextWork, _maxWork, _done >>' # << _nextWork, _maxWork, _done >>)
          => \E w \in Workers : pc'[w] # pc[w] /\ _workMutex = w]_vars

\* C17: in both modes a worker that is in do_work does not hold _workMutex,
\* so another worker can lock it and claim.
C17_HandlerOutsideLock == \A w \in Workers : pc[w] = "work" => _workMutex # w

C17_Witness ==
    \E v, w \in Workers :
        /\ v # w /\ pc[v] = "work" /\ pc[w] = "crit" /\ _workMutex = w
        /\ mode = "wait"

C19_StreamingReuse ==
    /\ [][(phase # "running" /\ phase' = "running")
            => (_nextWork' = 0 /\ _done' = _done /\ _maxWork' = _maxWork)]_vars
    /\ []((mode = "wait" /\ runNo >= 2 /\ closedAtStart)
            => (_done /\ \A w \in Workers : pc[w] \notin {"block", "waiting"}))
    /\ []((/\ phase = "joined" /\ mode = "wait" /\ runNo >= 2 /\ closedAtStart
           /\ _threadCount >= 1)
            => (/\ handled = ExactlyOnce(_maxWork)
                /\ (~racedAdds => _maxWork = maxWorkArg + addCalls)))

C19_Witness ==
    /\ phase = "joined" /\ mode = "wait" /\ runNo = 2 /\ closedAtStart
    /\ maxWorkArg = 0 /\ addCalls = MaxWork /\ ~racedAdds
    /\ _threadCount = MaxThreads
    /\ handled = ExactlyOnce(MaxWork) /\ prevHandled = ExactlyOnce(MaxWork)

\* C20: a run() run with at least one worker thread, on a scheduler that had
\* no add_work call so far, leads to join() having returned with every index
\* handled, unless add_work is called.
C20_FixedTermination ==
    (phase = "running" /\ mode = "fixed" /\ _threadCount >= 1 /\ addCalls = 0)
        ~> ((phase = "joined" /\ handled = ExactlyOnce(maxWorkArg)) \/ addCalls > 0)

C20_Witness ==
    /\ phase = "joined" /\ mode = "fixed" /\ addCalls = 0 /\ runNo = 1
    /\ _threadCount = MaxThreads /\ maxWorkArg = MaxWork - 1
    /\ handled = ExactlyOnce(MaxWork - 1)

====
